---- MODULE Spec2Model ----
(***************************************************************************)
(* Model of backend/model_load.py: predict_stage (stage classification     *)
(* with the non-scalp gate) and analyze_hair_density (four-image density   *)
(* trend).  Both are functions of their arguments and of what the          *)
(* environment answers (the bytes behind a URL, the model's output).       *)
(*                                                                         *)
(* Numbers.  Python floats are modelled by exact rationals <<n, d>> with   *)
(* d > 0 in lowest terms; a value rounded to one decimal is the integer    *)
(* number of tenths (-50 is -5.0).  Floating-point representation error is *)
(* not modelled.                                                           *)
(* Sequences are 1-based: Python's sorted_densities[i], i in 0..3, is      *)
(* sorted_densities[i + 1] here, and "week" i + 1 is the 1-based position. *)
(***************************************************************************)
EXTENDS Integers, Sequences, FiniteSets, TLC

VARIABLES pc, call, ret, fetched, inferred,
          hair_tracking_collection, response,
          loaded, threads

vars == <<pc, call, ret, fetched, inferred, hair_tracking_collection,
          response, loaded, threads>>

\* the state of one call run on its own
single == <<pc, call, ret, fetched, inferred>>

\* the module globals of model_load.py and the calls running side by side
conc == <<loaded, threads>>

\* the state of app.py, which the calls of model_load.py leave alone
app == <<hair_tracking_collection, response>>

(***************************************************************************)
(* Bounds of the model.                                                    *)
(***************************************************************************)
\* timestamps are compared only; a timestamp is its rank in 1..MaxTime
MaxTime == 4
\* pixel count of every decoded raster
ImgPixels == 2400
\* the argument lists of the calls of any length have 0..MaxCount elements
MaxCount == 5
\* the model's output scores are in 0..MaxProb (units of 1/MaxProb)
MaxProb == 2
\* a timestamp string has 1..MaxStampLen characters
MaxStampLen == 2
\* requests are served until HairTracking holds MaxDocs documents
MaxDocs == 2
\* the number of calls that run side by side
NumThreads == 2

(***************************************************************************)
(* Rational arithmetic.                                                    *)
(***************************************************************************)
Abs(x) == IF x < 0 THEN -x ELSE x

RECURSIVE GCD(_, _)
GCD(a, b) == IF b = 0 THEN a ELSE GCD(b, a % b)

Rat(n, d) ==
    LET g == GCD(Abs(n), Abs(d))
        s == IF d < 0 THEN -1 ELSE 1
    IN  <<s * (n \div g), s * (d \div g)>>

RatSub(p, q) == Rat(p[1] * q[2] - q[1] * p[2], p[2] * q[2])
RatDiv(p, q) == Rat(p[1] * q[2], p[2] * q[1])
RatTimes(p, k) == LET r == Rat(k, p[2]) IN Rat(p[1] * r[1], r[2])
RatGt(p, k) == p[1] > k * p[2]
RatLt(p, k) == p[1] < k * p[2]

(***************************************************************************)
(* The environment: what a URL yields.  An image either cannot be fetched  *)
(* or decoded (urlopen raises, or cv2.imdecode returns None), or decodes   *)
(* to a raster of `total` pixels of which `hair` are below the threshold.  *)
(***************************************************************************)
HairCounts == {0, 2260, 2261, 2380}

Broken == [ok |-> FALSE, hair |-> 0, total |-> ImgPixels]

Raster(h) == [ok |-> TRUE, hair |-> h, total |-> ImgPixels]

Images == {Broken} \cup {Raster(h) : h \in HairCounts}

Timestamps == 1..MaxTime

(***************************************************************************)
(* analyze_hair_density                                                    *)
(***************************************************************************)
\* density = (hair_pixels / total_pixels) * 100
Density(img) == RatTimes(Rat(img.hair, img.total), 100)

Failure(msg, url) == [error |-> [msg |-> msg, url |-> url]]

\* variant: an image that fails is skipped and the loop goes on
RECURSIVE ProcessImages_Skip(_, _, _, _)
ProcessImages_Skip(image_urls, i, density_scores, log) ==
    IF i > Len(image_urls)
    THEN [raised |-> 0, density_scores |-> density_scores, log |-> log]
    ELSE IF ~image_urls[i].ok
         THEN ProcessImages_Skip(image_urls, i + 1, density_scores,
                                 Append(log, i))
         ELSE ProcessImages_Skip(image_urls, i + 1,
                                 Append(density_scores, Density(image_urls[i])),
                                 Append(log, i))

\* the loop over image_urls: state of the loop after the images before i
RECURSIVE ProcessImages(_, _, _, _)
ProcessImages(image_urls, i, density_scores, log) ==
    IF i > Len(image_urls)
    THEN [raised |-> 0, density_scores |-> density_scores, log |-> log]
    ELSE IF ~image_urls[i].ok
         THEN [raised |-> i, density_scores |-> density_scores,
               log |-> Append(log, i)]
         ELSE ProcessImages(image_urls, i + 1,
                            Append(density_scores, Density(image_urls[i])),
                            Append(log, i))

\* variant: an index also moves left past an equal key
RECURSIVE InsertIndex_Unstable(_, _, _)
InsertIndex_Unstable(idx, i, keys) ==
    IF idx # <<>> /\ keys[i] <= keys[idx[Len(idx)]]
    THEN Append(InsertIndex_Unstable(SubSeq(idx, 1, Len(idx) - 1), i, keys),
                idx[Len(idx)])
    ELSE Append(idx, i)

\* np.argsort on four elements: insertion sort of the indices, moving an
\* index left while its key is strictly less than its predecessor's
RECURSIVE InsertIndex(_, _, _)
InsertIndex(idx, i, keys) ==
    IF idx # <<>> /\ keys[i] < keys[idx[Len(idx)]]
    THEN Append(InsertIndex(SubSeq(idx, 1, Len(idx) - 1), i, keys),
                idx[Len(idx)])
    ELSE Append(idx, i)

RECURSIVE ArgSortUpTo(_, _)
ArgSortUpTo(keys, n) ==
    IF n = 0 THEN <<>> ELSE InsertIndex(ArgSortUpTo(keys, n - 1), n, keys)

\* variant: the inputs are taken in the order given
ArgSort_None(keys) == [k \in 1..Len(keys) |-> k]

ArgSort(keys) == ArgSortUpTo(keys, Len(keys))

\* variant: the relative change is not scaled to a percentage
PercentageChange_Fraction(current_density, baseline_density) ==
    IF baseline_density[1] = 0
    THEN Rat(0, 1)
    ELSE RatDiv(RatSub(current_density, baseline_density), baseline_density)

\* variant: growth from a zero baseline counts as +100%
PercentageChange_ZeroAsFull(current_density, baseline_density) ==
    IF baseline_density[1] = 0
    THEN (IF current_density[1] = 0 THEN Rat(0, 1) ELSE Rat(100, 1))
    ELSE RatTimes(RatDiv(RatSub(current_density, baseline_density),
                         baseline_density), 100)

\* percentage_change, before rounding
PercentageChange(current_density, baseline_density) ==
    IF baseline_density[1] = 0
    THEN Rat(0, 1)
    ELSE RatTimes(RatDiv(RatSub(current_density, baseline_density),
                         baseline_density), 100)

\* the three-way rule
Classify(change) ==
    IF RatGt(change, 0) THEN "Improved"
    ELSE IF RatLt(change, -5) THEN "Worsened"
    ELSE "Stable"

\* round(x, 1), in tenths; a tie goes to the even tenth
Round1(x) ==
    LET n == 10 * x[1]
        f == n \div x[2]
        r == n % x[2]
    IN  IF 2 * r < x[2] THEN f
        ELSE IF 2 * r > x[2] THEN f + 1
        ELSE IF f % 2 = 0 THEN f ELSE f + 1

\* the status of one period: classified from the unrounded change
PointStatus(percentage_change) == Classify(percentage_change)

TrendPoint(i, sorted_densities) ==
    LET percentage_change ==
            PercentageChange(sorted_densities[i], sorted_densities[1])
    IN  [week |-> i,
         percentageChange |-> Round1(percentage_change),
         status |-> PointStatus(percentage_change)]

\* np.mean of the reported (rounded) changes, as a percentage
AvgChange(results) ==
    Rat(results[1].percentageChange + results[2].percentageChange
          + results[3].percentageChange, 30)

\* variant: a mean of exactly -5 counts as Worsened
OverallStatus_Inclusive(results) ==
    IF RatGt(AvgChange(results), 0) THEN "Improved"
    ELSE IF ~RatGt(AvgChange(results), -5) THEN "Worsened"
    ELSE "Stable"

OverallStatus(results) == Classify(AvgChange(results))

Trend(density_scores, timestamps) ==
    LET sorted_indices == ArgSort(timestamps)
        sorted_densities == [k \in 1..4 |-> density_scores[sorted_indices[k]]]
        results == [k \in 1..3 |-> TrendPoint(k + 1, sorted_densities)]
    IN  [results |-> results,
         status |-> OverallStatus(results),
         comparisonImageUrl |-> "None"]

\* variant: only a call with both lists wrong is rejected
WrongCount_Both(image_urls, timestamps) ==
    Len(image_urls) # 4 /\ Len(timestamps) # 4

\* the guard of the first return
WrongCount(image_urls, timestamps) ==
    Len(image_urls) # 4 \/ Len(timestamps) # 4

\* the value returned and the URLs opened, in order
analyze_hair_density(image_urls, timestamps) ==
    IF WrongCount(image_urls, timestamps)
    THEN [ret |-> Failure("Exactly 4 images and timestamps are required", 0),
          log |-> <<>>]
    ELSE LET loop == ProcessImages(image_urls, 1, <<>>, <<>>)
         IN  IF loop.raised # 0
             THEN [ret |-> Failure("Failed to process image", loop.raised),
                   log |-> loop.log]
             ELSE IF Len(loop.density_scores) # 4
             THEN [ret |-> Failure("Failed to process all images", 0),
                   log |-> loop.log]
             ELSE [ret |-> Trend(loop.density_scores, timestamps),
                   log |-> loop.log]

(***************************************************************************)
(* predict_stage                                                           *)
(***************************************************************************)
male_labels ==
    <<"non-scalp", "Stage 1", "Stage 2", "Stage 3", "Stage 4", "Stage 5",
      "Stage 6">>

female_labels ==
    <<"non-scalp", "Stage 1", "Stage 2", "Stage 3", "Stage 4", "Stage 5">>

Genders == {"male", "female", "other"}

\* variant: any other gender falls back to the female model
ClassLabels_Default(gender) ==
    IF gender = "male" THEN male_labels ELSE female_labels

\* the label list of the model chosen for a gender, <<>> when there is none
ClassLabels(gender) ==
    IF gender = "male" THEN male_labels
    ELSE IF gender = "female" THEN female_labels
    ELSE <<>>

\* what model.predict answers: it raises, or gives one score per label
Outputs(gender) ==
    [raises : BOOLEAN,
     predictions : [1..(IF gender = "female" THEN Len(female_labels)
                        ELSE Len(male_labels)) -> 0..MaxProb]]

\* np.max
RECURSIVE MaxOf(_, _)
MaxOf(predictions, n) ==
    IF n = 1 THEN predictions[1]
    ELSE LET m == MaxOf(predictions, n - 1)
         IN  IF predictions[n] > m THEN predictions[n] ELSE m

\* variant: the 0-based index of the last maximum
ArgMax_Last(predictions) ==
    (CHOOSE i \in 1..Len(predictions) :
        /\ predictions[i] = MaxOf(predictions, Len(predictions))
        /\ \A j \in (i + 1)..Len(predictions) :
              predictions[j] # predictions[i]) - 1

\* np.argmax: the 0-based index of the first maximum
ArgMax(predictions) ==
    (CHOOSE i \in 1..Len(predictions) :
        /\ predictions[i] = MaxOf(predictions, Len(predictions))
        /\ \A j \in 1..(i - 1) : predictions[j] # predictions[i]) - 1

\* the non-scalp gate
NonScalp(predicted_class) == predicted_class = 0

\* the value returned, the URLs opened and the number of model.predict calls
predict_stage(image_url, gender, output) ==
    LET class_labels == ClassLabels(gender)
    IN  IF class_labels = <<>>
        THEN [ret |-> Failure("Invalid gender selection", 0),
              log |-> <<>>, inferred |-> 0]
        ELSE IF ~image_url.ok
        THEN [ret |-> Failure("Error loading image from URL", 1),
              log |-> <<1>>, inferred |-> 0]
        ELSE IF output.raises
        THEN [ret |-> Failure("Prediction failed", 0),
              log |-> <<1>>, inferred |-> 1]
        ELSE LET predicted_class == ArgMax(output.predictions)
                 confidence == MaxOf(output.predictions,
                                     Len(output.predictions))
             IN  IF NonScalp(predicted_class)
                 THEN [ret |-> [error |-> [msg |-> "Invalid image!", url |-> 0],
                                stage |-> class_labels[predicted_class + 1],
                                confidence |-> confidence,
                                image_url |-> image_url],
                       log |-> <<1>>, inferred |-> 1]
                 ELSE [ret |-> [stage |-> class_labels[predicted_class + 1],
                                confidence |-> confidence,
                                image_url |-> image_url],
                       log |-> <<1>>, inferred |-> 1]

(***************************************************************************)
(* State machine: one call, from its arguments and the environment's       *)
(* answers to its returned value.                                          *)
(***************************************************************************)
NoCall == [op |-> "none"]

\* the module globals after the import of model_load.py
AtStartup ==
    [male_model |-> "hairfall_stage_male.h5",
     female_model |-> "hairfall_stage_female.h5",
     male_labels |-> male_labels,
     female_labels |-> female_labels]

Threads == 1..NumThreads

Init ==
    /\ pc = "idle"
    /\ call = NoCall
    /\ ret = [none |-> TRUE]
    /\ fetched = <<>>
    /\ inferred = 0
    /\ hair_tracking_collection = [ready |-> TRUE, docs |-> <<>>]
    /\ response = [status |-> 0]
    /\ loaded = AtStartup
    /\ threads = [t \in Threads |-> [at |-> "idle"]]

Track(image_urls, timestamps) ==
    LET out == analyze_hair_density(image_urls, timestamps)
    IN  /\ pc' = "done"
        /\ call' = [op |-> "track", image_urls |-> image_urls,
                    timestamps |-> timestamps]
        /\ ret' = out.ret
        /\ fetched' = out.log
        /\ inferred' = 0
        /\ UNCHANGED <<app, conc>>

\* a call with four images and four timestamps
AnalyzeHairDensity ==
    /\ pc = "idle"
    /\ \E image_urls \in [1..4 -> Images], timestamps \in [1..4 -> Timestamps] :
           Track(image_urls, timestamps)

\* a call with lists of any length
CountImages == {Broken, Raster(2380)}

CountTimestamps == {1, MaxTime}

Lists(S) == UNION {[1..n -> S] : n \in 0..MaxCount}

AnalyzeAnyCount ==
    /\ pc = "idle"
    /\ \E image_urls \in Lists(CountImages),
          timestamps \in Lists(CountTimestamps) :
           Track(image_urls, timestamps)

(***************************************************************************)
(* Timestamps as the strings the caller passes.  A string is a sequence of *)
(* character codes, here the digit "1" (code 1) and the letter "x"         *)
(* (code 2).  The code never parses a timestamp: np.argsort compares the   *)
(* strings by code point.                                                  *)
(***************************************************************************)
StampChars == {1, 2}

Stamps == UNION {[1..n -> StampChars] : n \in 1..MaxStampLen}

\* s < t for two strings of a numpy unicode array: the first differing
\* character decides, and a proper prefix is less
StampLess(s, t) ==
    \E k \in 1..Len(t) :
        /\ \A j \in 1..(k - 1) : j <= Len(s) /\ s[j] = t[j]
        /\ (k > Len(s) \/ (k <= Len(s) /\ s[k] < t[k]))

\* the sort key of a string: its rank among the strings in that order
StampKey(s) == 1 + Cardinality({t \in Stamps : StampLess(t, s)})

\* a call with four images and four timestamp strings
AnalyzeStamped ==
    /\ pc = "idle"
    /\ \E image_urls \in [1..4 -> CountImages], stamps \in [1..4 -> Stamps] :
          LET out == analyze_hair_density(image_urls,
                         [i \in 1..4 |-> StampKey(stamps[i])])
          IN  /\ pc' = "done"
              /\ call' = [op |-> "track", image_urls |-> image_urls,
                          timestamps |-> stamps]
              /\ ret' = out.ret
              /\ fetched' = out.log
              /\ inferred' = 0
              /\ UNCHANGED <<app, conc>>

PredictStage ==
    /\ pc = "idle"
    /\ \E gender \in Genders, image_url \in CountImages :
          \E output \in Outputs(gender) :
             LET out == predict_stage(image_url, gender, output)
             IN  /\ pc' = "done"
                 /\ call' = [op |-> "classify", image_url |-> image_url,
                             gender |-> gender, output |-> output]
                 /\ ret' = out.ret
                 /\ fetched' = out.log
                 /\ inferred' = out.inferred
                 /\ UNCHANGED <<app, conc>>

(***************************************************************************)
(* app.py: the /analyze-hair-growth handler.  A request says whether the   *)
(* four files and user_id are present, which file (if any) has an empty    *)
(* filename, which upload (if any) raises, what the uploaded URLs yield,   *)
(* the timestamps of the form and whether insert_one raises.               *)
(***************************************************************************)
Requests ==
    [present : BOOLEAN, blank : {0, 3}, upload_raises : {0, 2, 3},
     urls : [1..4 -> CountImages],
     timestamps : {<<1, 2, 3, 4>>, <<4, 3, 2, 1>>},
     insert_raises : BOOLEAN]

Answer(status, body) == [status |-> status, body |-> body]

ErrorBody(msg) == [error |-> [msg |-> msg, url |-> 0]]

\* variant: the fields are read with .get, so a failure has no KeyError
BuildMetadata_Get(request, results) ==
    [raised |-> FALSE,
     doc |-> [images |-> request.urls, timestamps |-> request.timestamps,
              results |-> IF "results" \in DOMAIN results
                          THEN results.results ELSE <<>>,
              status |-> IF "status" \in DOMAIN results
                         THEN results.status ELSE "None"]]

\* the metadata dict; results["results"] raises KeyError on a failure
BuildMetadata(request, results) ==
    IF "results" \notin DOMAIN results \/ "status" \notin DOMAIN results
    THEN [raised |-> TRUE]
    ELSE [raised |-> FALSE,
          doc |-> [images |-> request.urls, timestamps |-> request.timestamps,
                   results |-> results.results, status |-> results.status]]

\* the upload loop: 0 when the four uploads are done, else the status of
\* the early return
UploadStatus(request) ==
    LET stops == {i \in 1..4 : request.blank = i \/ request.upload_raises = i}
    IN  IF stops = {} THEN 0
        ELSE LET i == CHOOSE k \in stops : \A j \in stops : k <= j
             IN  IF request.blank = i THEN 400 ELSE 500

\* the response, the documents of HairTracking afterwards, the value
\* analyze_hair_density returned (if called) and the URLs it opened
analyze_hair_growth(request, collection) ==
    LET quiet == [docs |-> collection.docs, results |-> [none |-> TRUE],
                  log |-> <<>>]
    IN  IF ~request.present
        THEN [response |-> Answer(400, ErrorBody("Missing images or user_id"))]
             @@ quiet
        ELSE IF UploadStatus(request) = 400
        THEN [response |-> Answer(400, ErrorBody("No file selected"))] @@ quiet
        ELSE IF UploadStatus(request) = 500
        THEN [response |-> Answer(500, ErrorBody("Cloudinary upload failed"))]
             @@ quiet
        ELSE LET out == analyze_hair_density(request.urls, request.timestamps)
                 metadata == BuildMetadata(request, out.ret)
                 seen == [results |-> out.ret, log |-> out.log]
             IN  IF ~collection.ready
                 THEN [response |->
                           Answer(500, ErrorBody("MongoDB is not initialized")),
                       docs |-> collection.docs] @@ seen
                 ELSE IF metadata.raised \/ request.insert_raises
                 THEN [response |-> Answer(500, ErrorBody("Analysis failed")),
                       docs |-> collection.docs] @@ seen
                 ELSE [response |-> Answer(200, out.ret),
                       docs |-> Append(collection.docs, metadata.doc)] @@ seen

AnalyzeHairGrowth ==
    /\ Len(hair_tracking_collection.docs) < MaxDocs
    /\ \E request \in Requests :
          LET out == analyze_hair_growth(request, hair_tracking_collection)
          IN  /\ pc' = "done"
              /\ call' = [op |-> "analyze-hair-growth", request |-> request]
              /\ ret' = out.results
              /\ fetched' = out.log
              /\ inferred' = 0
              /\ hair_tracking_collection' =
                     [hair_tracking_collection EXCEPT !.docs = out.docs]
              /\ response' = out.response
              /\ UNCHANGED conc

(***************************************************************************)
(* Calls running side by side (the server handles requests on threads).    *)
(* A call is cut at its reads of the module globals and at its I/O: the    *)
(* choice of the model, the image load and the inference of predict_stage; *)
(* the count check, each image of the loop and the trend computation of    *)
(* analyze_hair_density.  Each step maps the globals and the thread's      *)
(* locals to the globals and the locals after it.                          *)
(***************************************************************************)
OneHot(n, k) == [j \in 1..n |-> IF j = k THEN MaxProb ELSE 0]

ThreadOutputs(gender) ==
    LET n == IF gender = "female" THEN Len(female_labels)
             ELSE Len(male_labels)
    IN  {[raises |-> TRUE, predictions |-> OneHot(n, 1)]}
        \cup {[raises |-> FALSE, predictions |-> OneHot(n, k)] : k \in {1, 2, n}}

ThreadArgs ==
    {[op |-> "classify", gender |-> g, image_url |-> u, output |-> o] :
        g \in Genders, u \in CountImages, o \in ThreadOutputs("male")
            \cup ThreadOutputs("female")}
    \cup
    [op : {"track"},
     image_urls : {<<Raster(2380), Raster(2260), Raster(2261), Raster(0)>>,
                   <<Raster(2380), Broken, Raster(2261), Broken>>},
     timestamps : {<<1, 2, 3, 4>>, <<2, 1, 1, 2>>}]

Returned(th, value) == [at |-> "done", args |-> th.args, ret |-> value]

\* variant: the chosen model and labels are kept in the module globals
select_model_Global(globals, th) ==
    IF th.args.gender \notin {"male", "female"}
    THEN [globals |-> globals,
          thread |-> Returned(th, Failure("Invalid gender selection", 0))]
    ELSE LET chosen == IF th.args.gender = "male"
                       THEN [model |-> globals.male_model,
                             class_labels |-> globals.male_labels]
                       ELSE [model |-> globals.female_model,
                             class_labels |-> globals.female_labels]
         IN  [globals |-> [globals EXCEPT !.male_model = chosen.model,
                                          !.male_labels = chosen.class_labels],
              thread |-> [at |-> "load", args |-> th.args,
                          model |-> chosen.model,
                          class_labels |-> chosen.class_labels]]

\* predict_stage, the choice of model and class_labels by gender
select_model(globals, th) ==
    [globals |-> globals,
     thread |->
        IF th.args.gender = "male"
        THEN [at |-> "load", args |-> th.args, model |-> globals.male_model,
              class_labels |-> globals.male_labels]
        ELSE IF th.args.gender = "female"
        THEN [at |-> "load", args |-> th.args, model |-> globals.female_model,
              class_labels |-> globals.female_labels]
        ELSE Returned(th, Failure("Invalid gender selection", 0))]

\* predict_stage, the image load
load_image(globals, th) ==
    [globals |-> globals,
     thread |->
        IF ~th.args.image_url.ok
        THEN Returned(th, Failure("Error loading image from URL", 1))
        ELSE [th EXCEPT !.at = "predict"]]

\* predict_stage, the inference and the returned dict; the model answers
\* with one score per label of its own list, and an index outside
\* class_labels raises inside the try
run_inference(globals, th) ==
    LET answers ==
            Len(th.args.output.predictions) =
                (IF th.model = "hairfall_stage_female.h5"
                 THEN Len(female_labels) ELSE Len(male_labels))
        predicted_class == ArgMax(th.args.output.predictions)
        confidence == MaxOf(th.args.output.predictions,
                            Len(th.args.output.predictions))
    IN  [globals |-> globals,
         thread |->
            IF th.args.output.raises \/ ~answers
               \/ predicted_class + 1 > Len(th.class_labels)
            THEN Returned(th, Failure("Prediction failed", 0))
            ELSE IF NonScalp(predicted_class)
            THEN Returned(th,
                     [error |-> [msg |-> "Invalid image!", url |-> 0],
                      stage |-> th.class_labels[predicted_class + 1],
                      confidence |-> confidence,
                      image_url |-> th.args.image_url])
            ELSE Returned(th,
                     [stage |-> th.class_labels[predicted_class + 1],
                      confidence |-> confidence,
                      image_url |-> th.args.image_url])]

\* analyze_hair_density, the count check
check_count(globals, th) ==
    [globals |-> globals,
     thread |->
        IF WrongCount(th.args.image_urls, th.args.timestamps)
        THEN Returned(th,
                 Failure("Exactly 4 images and timestamps are required", 0))
        ELSE [at |-> "fetch", args |-> th.args, i |-> 1,
              density_scores |-> <<>>]]

\* analyze_hair_density, one turn of the loop over image_urls
fetch_image(globals, th) ==
    [globals |-> globals,
     thread |->
        IF th.i > Len(th.args.image_urls)
        THEN [th EXCEPT !.at = "trend"]
        ELSE IF ~th.args.image_urls[th.i].ok
        THEN Returned(th, Failure("Failed to process image", th.i))
        ELSE [th EXCEPT !.i = th.i + 1,
                        !.density_scores =
                            Append(th.density_scores,
                                   Density(th.args.image_urls[th.i]))]]

\* analyze_hair_density, after the loop
compute_trend(globals, th) ==
    [globals |-> globals,
     thread |->
        IF Len(th.density_scores) # 4
        THEN Returned(th, Failure("Failed to process all images", 0))
        ELSE Returned(th, Trend(th.density_scores, th.args.timestamps))]

step(globals, th) ==
    CASE th.at = "select" -> select_model(globals, th)
      [] th.at = "load" -> load_image(globals, th)
      [] th.at = "predict" -> run_inference(globals, th)
      [] th.at = "count" -> check_count(globals, th)
      [] th.at = "fetch" -> fetch_image(globals, th)
      [] th.at = "trend" -> compute_trend(globals, th)

\* a call arrives on thread t
Invoke(t) ==
    /\ threads[t].at = "idle"
    /\ \E args \in ThreadArgs :
          /\ args.op = "classify" =>
                 args.output \in ThreadOutputs(args.gender)
          /\ threads' = [threads EXCEPT ![t] =
                 [at |-> IF args.op = "classify" THEN "select" ELSE "count",
                  args |-> args]]
    /\ UNCHANGED <<loaded, single, app>>

\* thread t takes its next step
Run(t) ==
    /\ threads[t].at \notin {"idle", "done"}
    /\ LET out == step(loaded, threads[t])
       IN  /\ loaded' = out.globals
           /\ threads' = [threads EXCEPT ![t] = out.thread]
    /\ UNCHANGED <<single, app>>

Next == AnalyzeHairDensity

Spec == Init /\ [][Next]_vars

NextCount == AnalyzeAnyCount

SpecCount == Init /\ [][NextCount]_vars

NextClassify == PredictStage

SpecClassify == Init /\ [][NextClassify]_vars

NextStamped == AnalyzeStamped

SpecStamped == Init /\ [][NextStamped]_vars

NextHandler == AnalyzeHairGrowth

SpecHandler == Init /\ [][NextHandler]_vars

NextThreads == \E t \in Threads : Invoke(t) \/ Run(t)

SpecThreads == Init /\ [][NextThreads]_vars

(***************************************************************************)
(* Properties of analyze_hair_density                                      *)
(***************************************************************************)
TrackDone == pc = "done" /\ call.op = "track"

TrackOK == TrackDone /\ "results" \in DOMAIN ret

AllDecodable ==
    \A i \in 1..Len(call.image_urls) : call.image_urls[i].ok

\* the 1-based place of input i when the inputs are ordered by timestamp
\* and, among equal timestamps, by input position
Place(timestamps, i) ==
    1 + Cardinality({j \in 1..Len(timestamps) :
                        \/ timestamps[j] < timestamps[i]
                        \/ timestamps[j] = timestamps[i] /\ j < i})

\* the input at place k of that order
Sample(k) ==
    call.image_urls[CHOOSE i \in 1..4 : Place(call.timestamps, i) = k]

\* tenths r is a nearest one-decimal value of 100 * (cur - base) / base,
\* for the densities of the rasters cur and base
ReportsChange(r, cur, base) ==
    LET x == Rat(100 * (cur.hair * base.total - base.hair * cur.total),
                 base.hair * cur.total)
    IN  2 * Abs(r * x[2] - 10 * x[1]) <= x[2]

\* the three-way rule applied to a value in tenths
RuleOnTenths(r) ==
    IF r > 0 THEN "Improved" ELSE IF r < -50 THEN "Worsened" ELSE "Stable"

\* C1: in a successful result every point's status is the three-way rule
\* applied to the percentageChange reported in that point (Improved iff
\* > 0, Worsened iff < -5, else Stable).  The code classifies the change
\* before rounding it, so this fails.
C1_StatusFromReportedChange ==
    TrackOK =>
        \A k \in 1..3 :
            ret.results[k].status = RuleOnTenths(ret.results[k].percentageChange)

\* C2: with d1..d4 the densities in ascending timestamp order and d1 # 0,
\* the point for period k = 2, 3, 4 is the (k-1)-th returned point, carries
\* week k and reports 100 * (dk - d1) / d1 rounded to one decimal.
C2_ChangeRelativeToEarliest ==
    (TrackOK /\ Sample(1).hair # 0) =>
        \A k \in 2..4 :
            /\ ret.results[k - 1].week = k
            /\ ReportsChange(ret.results[k - 1].percentageChange,
                             Sample(k), Sample(1))

C2_Witness ==
    /\ TrackOK
    /\ Sample(1).hair = 2380
    /\ call.image_urls[1].hair = 2260
    /\ call.timestamps = <<3, 1, 4, 2>>
    /\ ret.results[1].percentageChange = 0
    /\ ret.results[2].percentageChange = -50
    /\ ret.results[3].percentageChange = -100 * 10

\* C3: the overall status is the three-way rule applied to the arithmetic
\* mean of the three reported percentageChange values (mean > 0 Improved,
\* mean < -5 Worsened, else Stable).
C3_OverallFromMeanOfReported ==
    TrackOK =>
        LET sum == ret.results[1].percentageChange
                     + ret.results[2].percentageChange
                     + ret.results[3].percentageChange
        IN  ret.status = IF sum > 0 THEN "Improved"
                         ELSE IF sum < -150 THEN "Worsened"
                         ELSE "Stable"

\* three reported changes of -5.0 whose unrounded values are below -5
C3_Witness ==
    /\ TrackOK
    /\ \A k \in 1..3 : /\ ret.results[k].percentageChange = -50
                        /\ ret.results[k].status = "Worsened"
    /\ ret.status = "Stable"

\* C4: when the baseline (smallest timestamp) has density 0 and all four
\* images decode, the call succeeds, every percentageChange is 0.0 and
\* every per-period status is Stable.
C4_ZeroBaseline ==
    (TrackDone /\ AllDecodable /\ Sample(1).hair = 0) =>
        /\ TrackOK
        /\ \A k \in 1..3 : /\ ret.results[k].percentageChange = 0
                            /\ ret.results[k].status = "Stable"

C4_Witness ==
    /\ TrackOK
    /\ Sample(1).hair = 0
    /\ \A k \in 2..4 : Sample(k).hair # 0
    /\ \A k \in 1..3 : ret.results[k].percentageChange = 0

\* the permutations of the four input positions
Perms == {p \in [1..4 -> 1..4] : \A a, b \in 1..4 : a # b => p[a] # p[b]}

Distinct(timestamps) ==
    \A a, b \in 1..Len(timestamps) : a # b => timestamps[a] # timestamps[b]

\* C5: with pairwise distinct timestamps, supplying the (image, timestamp)
\* pairs in any other order succeeds exactly when this call succeeded and
\* then returns the identical result (changes, statuses, overall status).
C5_OrderIndependent ==
    (TrackDone /\ Distinct(call.timestamps)) =>
        \A p \in Perms :
            LET other == analyze_hair_density(
                             [k \in 1..4 |-> call.image_urls[p[k]]],
                             [k \in 1..4 |-> call.timestamps[p[k]]]).ret
            IN  /\ ("results" \in DOMAIN other) = TrackOK
                /\ TrackOK => other = ret

\* the samples are supplied latest first and have three different changes
C5_Witness ==
    /\ TrackOK
    /\ call.timestamps = <<4, 3, 2, 1>>
    /\ call.image_urls[4].hair = 2261
    /\ ret.results[1].percentageChange = 0
    /\ ret.results[2].percentageChange = 53
    /\ ret.results[3].percentageChange = -1000

\* C7: when an image fails to load or decode the call returns a failure
\* that carries no trend points and no overall status, names the first
\* failing image, and has opened the images up to that one once each and
\* none after it.
C7_FailureIsFatal ==
    (TrackDone /\ ~AllDecodable) =>
        LET f == CHOOSE i \in 1..4 :
                    /\ ~call.image_urls[i].ok
                    /\ \A j \in 1..(i - 1) : call.image_urls[j].ok
        IN  /\ DOMAIN ret = {"error"}
            /\ ret.error.msg = "Failed to process image"
            /\ ret.error.url = f
            /\ fetched = [k \in 1..f |-> k]

\* the second image fails, the three others would have decoded
C7_Witness ==
    /\ TrackDone
    /\ ~call.image_urls[2].ok
    /\ \A i \in {1, 3, 4} : call.image_urls[i].ok
    /\ "error" \in DOMAIN ret
    /\ fetched = <<1, 2>>

\* some timestamps are equal
HasTies == ~Distinct(call.timestamps)

\* the first supplied of the samples with the smallest timestamp
FirstEarliest ==
    call.image_urls[CHOOSE i \in 1..4 :
        /\ \A j \in 1..4 : call.timestamps[i] <= call.timestamps[j]
        /\ \A j \in 1..(i - 1) : call.timestamps[j] # call.timestamps[i]]

C6_WrongCountRejected ==
    (TrackDone /\ (Len(call.image_urls) # 4 \/ Len(call.timestamps) # 4)) =>
        /\ DOMAIN ret = {"error"}
        /\ ret.error.msg = "Exactly 4 images and timestamps are required"
        /\ fetched = <<>>

\* three images, all of which would decode, with four timestamps
C6_Witness ==
    /\ TrackDone
    /\ Len(call.image_urls) = 3
    /\ Len(call.timestamps) = 4
    /\ \A i \in 1..3 : call.image_urls[i].ok
    /\ "error" \in DOMAIN ret
    /\ fetched = <<>>

(***************************************************************************)
(* Properties of predict_stage                                             *)
(***************************************************************************)
ClassifyDone == pc = "done" /\ call.op = "classify"

\* C8: for a gender other than male and female the call returns the
\* invalid-gender failure, opens no image and runs no inference.
C8_InvalidGenderRejected ==
    (ClassifyDone /\ call.gender \notin {"male", "female"}) =>
        /\ DOMAIN ret = {"error"}
        /\ ret.error.msg = "Invalid gender selection"
        /\ fetched = <<>>
        /\ inferred = 0

\* the image would have loaded and the model would have answered
C8_Witness ==
    /\ ClassifyDone
    /\ call.gender = "other"
    /\ call.image_url.ok
    /\ ~call.output.raises
    /\ "error" \in DOMAIN ret
    /\ inferred = 0

\* score 1 (index 0) is a maximum of the scores
FirstIsTop(predictions) ==
    \A j \in 1..Len(predictions) : predictions[1] >= predictions[j]

\* C9: for a valid gender, a loadable image and an inference that
\* completes, the returned value always carries stage and confidence; it
\* carries the rejection reason iff the arg-max index is 0, and then the
\* stage is the label at index 0 of the gender's label list.
C9_NonScalpIsResult ==
    (/\ ClassifyDone
     /\ call.gender \in {"male", "female"}
     /\ call.image_url.ok
     /\ ~call.output.raises) =>
        /\ {"stage", "confidence"} \subseteq DOMAIN ret
        /\ ("error" \in DOMAIN ret) = FirstIsTop(call.output.predictions)
        /\ \A j \in 1..Len(call.output.predictions) :
               ret.confidence >= call.output.predictions[j]
        /\ "error" \in DOMAIN ret =>
               /\ ret.error.msg = "Invalid image!"
               /\ ret.stage = "non-scalp"
               /\ ret.stage = (IF call.gender = "male" THEN male_labels
                               ELSE female_labels)[1]

\* index 0 ties with a later index for the top score
C9_Witness ==
    /\ ClassifyDone
    /\ call.gender = "female"
    /\ call.image_url.ok
    /\ ~call.output.raises
    /\ call.output.predictions[1] = MaxProb
    /\ call.output.predictions[6] = MaxProb
    /\ "error" \in DOMAIN ret
    /\ ret.stage = "non-scalp"
    /\ ret.confidence = MaxProb

(***************************************************************************)
(* Properties of the timestamps                                            *)
(***************************************************************************)
\* a string that reads as an instant: digits only
StampParses(s) == \A j \in 1..Len(s) : s[j] = 1

\* C11: when one of the four timestamps cannot be parsed as an instant the
\* call fails and returns no trend.  The code sorts the strings as they
\* are, so this fails.
C11_UnparseableRejected ==
    (TrackDone /\ \E i \in 1..4 : ~StampParses(call.timestamps[i])) =>
        /\ "error" \in DOMAIN ret
        /\ "results" \notin DOMAIN ret

(***************************************************************************)
(* Properties of the /analyze-hair-growth handler                          *)
(***************************************************************************)
\* the handler called analyze_hair_density and it returned a failure
AnalysisFailed(r) == "error" \in DOMAIN r

AnalysisOK(r) ==
    /\ {"results", "status"} \subseteq DOMAIN r
    /\ Len(r.results) = 3

\* C13: a request adds a document to HairTracking only when
\* analyze_hair_density returned a successful result (three trend points
\* and an overall status), and the document holds that result; when the
\* analysis returned a failure the request adds no document and is
\* answered with an error status and an error body, not the analysis value.
C13_StoredOnlyOnSuccess ==
    [][/\ hair_tracking_collection'.docs # hair_tracking_collection.docs =>
            /\ AnalysisOK(ret')
            /\ hair_tracking_collection'.docs =
                  Append(hair_tracking_collection.docs,
                         [images |-> call'.request.urls,
                          timestamps |-> call'.request.timestamps,
                          results |-> ret'.results,
                          status |-> ret'.status])
       /\ AnalysisFailed(ret') =>
            /\ hair_tracking_collection'.docs = hair_tracking_collection.docs
            /\ response'.status >= 400
            /\ response'.body # ret'
            /\ DOMAIN response'.body = {"error"}
            /\ response'.body.error.msg = "Analysis failed"]_vars

\* a request whose second image does not decode, after a request that
\* stored a document
C13_Witness ==
    /\ call.op = "analyze-hair-growth"
    /\ ~call.request.urls[2].ok
    /\ ret = Failure("Failed to process image", 2)
    /\ response.status = 500
    /\ Len(hair_tracking_collection.docs) = 1
    /\ hair_tracking_collection.docs[1].status = "Stable"

(***************************************************************************)
(* Properties of calls running side by side                                *)
(***************************************************************************)
\* what the call of a thread returns when it runs on its own
Alone(args) ==
    IF args.op = "classify"
    THEN predict_stage(args.image_url, args.gender, args.output).ret
    ELSE analyze_hair_density(args.image_urls, args.timestamps).ret

\* C12: the loaded models and the label lists keep the values of start-up
\* whatever the calls do; every call that has returned, under any
\* interleaving with the others, returned what it returns when run alone
\* on the same inputs; and a call that has not returned can always take
\* its next step (the step moves it on), whatever the other calls are
\* doing.
C12_ReadOnlySharing ==
    /\ loaded = AtStartup
    /\ \A t \in Threads :
          /\ threads[t].at = "done" => threads[t].ret = Alone(threads[t].args)
          /\ threads[t].at \notin {"idle", "done"} =>
                 step(loaded, threads[t]).thread # threads[t]

\* a male classification is between its choice of model and its
\* inference while a female classification and nothing else has run to
\* its end on another thread
C12_Witness ==
    /\ threads[1].at = "predict"
    /\ threads[1].args.gender = "male"
    /\ threads[1].class_labels = male_labels
    /\ threads[2].at = "done"
    /\ threads[2].args.op = "classify"
    /\ threads[2].args.gender = "female"
    /\ "stage" \in DOMAIN threads[2].ret
    /\ threads[2].ret.stage = "Stage 5"

====
